---- MODULE Spec2Model ----
(***************************************************************************)
(* Model of src/bot.py: the BTC indicator bot.                             *)
(*   get_btc_data      - fetch loop with retries and sleeps                *)
(*   calculate_rsi     - Wilder-style RSI with a seeded warm-up window     *)
(*   calculate_ema     - exponential moving average                        *)
(*   analyze_market    - fetch, compute, drop undefined rows, evaluate the *)
(*                       last two rows, notify, with one catch-all error   *)
(*                       path                                              *)
(*   send_telegram_message - the notifier, which swallows its own failures *)
(*                                                                         *)
(* float64 values are modelled as exact rationals <<num, den>> with        *)
(* den > 0, kept in lowest terms; NaN is the pair <<0, 0>>.                *)
(***************************************************************************)
EXTENDS Integers, Sequences, FiniteSets, TLC

\* ------------------------------------------------------------------------
\* Bounds of the model
\* ------------------------------------------------------------------------
MaxClose == 4
MaxLen == 3
MaxPrices == 4
MaxPeriod == 3
MaxEma == 3
MaxRetriesArg == 3

\* ------------------------------------------------------------------------
\* Program constants (src/bot.py lines 16-20, 42, 197)
\* ------------------------------------------------------------------------
RSI_PERIOD == 14
RSI_OVERBOUGHT == 45
RSI_OVERSOLD == 35
EMA_FAST == 12
EMA_SLOW == 26
DefaultMaxRetries == 3
DiagCap == 150

\* ------------------------------------------------------------------------
\* float64 arithmetic as exact rationals with NaN
\* ------------------------------------------------------------------------
\* a float: <<num, den>>; the operations are functions, so that their
\* arguments are values when they are applied
Float == Int \X Nat

NaN == <<0, 0>>

Abs(n) == IF n < 0 THEN -n ELSE n

Min(a, b) == IF a < b THEN a ELSE b

IsNaN[a \in Float] == a[2] = 0

Gcd[a \in Nat, b \in Nat] == IF b = 0 THEN a ELSE Gcd[b, a % b]

Norm[a \in Float] ==
    LET g == Gcd[Abs(a[1]), a[2]]
    IN  IF g = 0 THEN <<0, 1>> ELSE <<a[1] \div g, a[2] \div g>>

Num[n \in Int] == <<n, 1>>

FAdd[a \in Float, b \in Float] ==
    IF IsNaN[a] \/ IsNaN[b] THEN NaN
    ELSE Norm[<<a[1] * b[2] + b[1] * a[2], a[2] * b[2]>>]

FNeg[a \in Float] == IF IsNaN[a] THEN NaN ELSE <<-a[1], a[2]>>

FSub[a \in Float, b \in Float] == FAdd[a, FNeg[b]]

FMul[a \in Float, b \in Float] ==
    IF IsNaN[a] \/ IsNaN[b] THEN NaN
    ELSE Norm[<<a[1] * b[1], a[2] * b[2]>>]

\* a / b for b that is NaN or nonzero (the code guards the zero divisor)
FDiv[a \in Float, b \in Float] ==
    IF IsNaN[a] \/ IsNaN[b] THEN NaN
    ELSE IF b[1] < 0 THEN Norm[<<-(a[1] * b[2]), a[2] * (-b[1])>>]
    ELSE Norm[<<a[1] * b[2], a[2] * b[1]>>]

\* IEEE comparisons: every ordered comparison with NaN is false
FLt[a \in Float, b \in Float] == ~IsNaN[a] /\ ~IsNaN[b] /\ a[1] * b[2] < b[1] * a[2]
FLe[a \in Float, b \in Float] == ~IsNaN[a] /\ ~IsNaN[b] /\ a[1] * b[2] <= b[1] * a[2]
FGt[a \in Float, b \in Float] == FLt[b, a]
FGe[a \in Float, b \in Float] == FLe[b, a]
\* x != 0 is true for NaN
FNonZero[a \in Float] == IsNaN[a] \/ a[1] # 0

\* ------------------------------------------------------------------------
\* calculate_rsi (src/bot.py lines 81-103)
\* ------------------------------------------------------------------------
\* np.diff(prices): N-1 first differences (none for N <= 1)
Diff(p) ==
    IF Len(p) <= 1 THEN <<>>
    ELSE [k \in 1..(Len(p) - 1) |-> FSub[p[k + 1], p[k]]]

\* deltas[:period+1]
SeedWindow(deltas, period) == SubSeq(deltas, 1, Min(period + 1, Len(deltas)))

RECURSIVE SumSeq(_)
SumSeq(s) == IF s = <<>> THEN Num[0] ELSE FAdd[Head(s), SumSeq(Tail(s))]

\* seed[seed>=0].sum() and seed[seed<0].sum(): NaN entries pass neither mask
SumNonNeg(seed) == SumSeq(SelectSeq(seed, LAMBDA d : FGe[d, Num[0]]))
SumNeg(seed) == SumSeq(SelectSeq(seed, LAMBDA d : FLt[d, Num[0]]))

\* rs = up/down if down != 0 else 0
Rs(up, down) == IF FNonZero[down] THEN FDiv[up, down] ELSE Num[0]

\* 100. - 100./(1. + rs)
RsiOf(rs) == FSub[Num[100], FDiv[Num[100], FAdd[Num[1], rs]]]

SeedUp(deltas, period) == FDiv[SumNonNeg(SeedWindow(deltas, period)), Num[period]]
SeedDown(deltas, period) == FDiv[FNeg[SumNeg(SeedWindow(deltas, period))], Num[period]]

\* rsi = np.zeros_like(prices); rsi[:period] = seed value
SeedFillMutFirst(n, period, v) == [k \in 1..n |-> IF k <= 1 THEN v ELSE Num[0]]
SeedFill(n, period, v) == [k \in 1..n |-> IF k <= period THEN v ELSE Num[0]]

\* the recurrence loop, for i in range(period, len(prices)); i is 0-based,
\* deltas[i-1] of the code is deltas[i] here
RECURSIVE RsiLoop(_, _, _, _, _, _)
RsiLoop(i, n, deltas, period, ud, rsi) ==
    IF i >= n THEN rsi
    ELSE
      LET delta == deltas[i]
          upval == IF FGt[delta, Num[0]] THEN delta ELSE Num[0]
          downval == IF FGt[delta, Num[0]] THEN Num[0] ELSE FNeg[delta]
          up == FDiv[FAdd[FMul[ud[1], Num[period - 1]], upval], Num[period]]
          down == FDiv[FAdd[FMul[ud[2], Num[period - 1]], downval], Num[period]]
      IN  RsiLoop(i + 1, n, deltas, period, <<up, down>>,
                  [rsi EXCEPT ![i + 1] = RsiOf(Rs(up, down))])

calculate_rsi(p, period) ==
    LET deltas == Diff(p)
        up == SeedUp(deltas, period)
        down == SeedDown(deltas, period)
        rsi0 == SeedFill(Len(p), period, RsiOf(Rs(up, down)))
    IN  RsiLoop(period, Len(p), deltas, period, <<up, down>>, rsi0)

\* ------------------------------------------------------------------------
\* calculate_ema (src/bot.py lines 105-112), for a non-empty price array
\* ------------------------------------------------------------------------
RECURSIVE EmaLoop(_, _, _, _)
EmaLoop(i, p, m, ema) ==
    IF i > Len(p) THEN ema
    ELSE EmaLoop(i + 1, p, m,
                 Append(ema, FAdd[FMul[p[i], m], FMul[ema[i - 1], FSub[Num[1], m]]]))

calculate_ema(p, period) ==
    EmaLoop(2, p, FDiv[Num[2], Num[period + 1]], <<p[1]>>)

\* ------------------------------------------------------------------------
\* State
\* ------------------------------------------------------------------------
VARIABLES
    pc,           \* position of the run
    max_retries,  \* get_btc_data: argument
    attempt,      \* get_btc_data: loop index
    attempts,     \* get_btc_data: requests.get calls made so far
    failures,     \* get_btc_data: attempts that ended in an except clause
    waits,        \* get_btc_data: time.sleep calls made so far
    fetched,      \* get_btc_data: "pending", "none" (None) or "series"
    df,           \* the close column of the fetched frame
    rsi, ema_fast, ema_slow,   \* the indicator columns
    computed,     \* some indicator column has been computed
    df_clean,     \* rows left by dropna
    prev_row, last_row,
    overbought, oversold,      \* RSI thresholds in force
    alerts,       \* the alerts list
    evaluated,    \* the alert rules have been applied
    reportMode,   \* zero-alert reporting: "silent" or "always"
    exc,          \* the exception caught by analyze_market
    errEntries,   \* times the except clause was entered
    sent,         \* messages handed to send_telegram_message
    results,      \* its return values
    logged,       \* failures it printed
    prices, period, rsiOut     \* a direct call of calculate_rsi

fetchVars == <<max_retries, attempt, attempts, failures, waits, fetched, df>>
compVars == <<rsi, ema_fast, ema_slow, computed>>
evalVars == <<df_clean, prev_row, last_row, alerts, evaluated>>
cfgVars == <<overbought, oversold, reportMode>>
notifyVars == <<sent, results, logged>>
errVars == <<exc, errEntries>>
rsiVars == <<prices, period, rsiOut>>
vars == <<pc, fetchVars, compVars, evalVars, cfgVars, notifyVars, errVars, rsiVars>>

\* ------------------------------------------------------------------------
\* Values
\* ------------------------------------------------------------------------
\* a close is a number, or NaN where the provider sent null
CloseVals == {Num[c] : c \in 1..MaxClose} \cup {NaN}

SeriesOf(maxlen) == UNION {[1..n -> CloseVals] : n \in 0..maxlen}

NoRow == [close |-> NaN, rsi |-> NaN, ema_fast |-> NaN, ema_slow |-> NaN]

NoExc == [name |-> "", text |-> "", len |-> 0]

\* what requests.post can do: status 200, another status, or raise
PostOutcomes == {"200", "not200", "raises"}

\* what requests.get can do short of a usable body
GetFailures == {"timeout", "not200", "raises"}

\* lengths of the message of an exception raised by library code
FaultLens == {0, DiagCap, DiagCap + 1, 2 * DiagCap}

\* ------------------------------------------------------------------------
\* send_telegram_message (src/bot.py lines 22-40)
\* ------------------------------------------------------------------------
\* the return value: True on status 200, False on another status or on an
\* exception, which is caught inside
SendReturns(outcome) == outcome = "200"

Send(msg, outcome) ==
    /\ sent' = Append(sent, msg)
    /\ results' = Append(results, SendReturns(outcome))
    /\ logged' = IF SendReturns(outcome) THEN logged ELSE logged + 1

\* ------------------------------------------------------------------------
\* get_btc_data (src/bot.py lines 42-79)
\* ------------------------------------------------------------------------
\* if attempt < max_retries - 1: sleep and go round again
RetryAfterFailureMutAlways(a, m) == TRUE
RetryAfterFailure(a, m) == a < m - 1

\* an attempt that gets status 200 and a body: the frame is returned
FetchAttemptOk ==
    /\ pc = "fetch"
    /\ attempt < max_retries
    /\ \E s \in SeriesOf(MaxLen) :
         /\ df' = s
         /\ fetched' = "series"
    /\ attempts' = attempts + 1
    /\ pc' = "fetched"
    /\ UNCHANGED <<max_retries, attempt, failures, waits>>
    /\ UNCHANGED <<compVars, evalVars, cfgVars, notifyVars, errVars, rsiVars>>

\* an attempt that times out, gets another status, or raises otherwise
FetchAttemptFail ==
    /\ pc = "fetch"
    /\ attempt < max_retries
    /\ \E cause \in GetFailures :
         /\ attempts' = attempts + 1
         /\ failures' = failures + 1
         /\ IF RetryAfterFailure(attempt, max_retries)
              THEN /\ pc' = "sleep"
                   /\ fetched' = fetched
              ELSE /\ pc' = "fetched"
                   /\ fetched' = "none"
    /\ UNCHANGED <<max_retries, attempt, waits, df>>
    /\ UNCHANGED <<compVars, evalVars, cfgVars, notifyVars, errVars, rsiVars>>

\* time.sleep(5), then the next iteration of the for loop
FetchSleep ==
    /\ pc = "sleep"
    /\ waits' = waits + 1
    /\ attempt' = attempt + 1
    /\ pc' = "fetch"
    /\ UNCHANGED <<max_retries, attempts, failures, fetched, df>>
    /\ UNCHANGED <<compVars, evalVars, cfgVars, notifyVars, errVars, rsiVars>>

\* the for loop ends without a return: the function returns None
FetchLoopEnd ==
    /\ pc = "fetch"
    /\ attempt >= max_retries
    /\ fetched' = "none"
    /\ pc' = "fetched"
    /\ UNCHANGED <<max_retries, attempt, attempts, failures, waits, df>>
    /\ UNCHANGED <<compVars, evalVars, cfgVars, notifyVars, errVars, rsiVars>>

\* ------------------------------------------------------------------------
\* analyze_market (src/bot.py lines 136-197)
\* ------------------------------------------------------------------------
Raise(name, text, len) ==
    /\ exc' = [name |-> name, text |-> text, len |-> len]
    /\ errEntries' = errEntries + 1
    /\ pc' = "error"

\* if df is None or len(df) == 0
NoDataMutNoneOnly(f, d) == f = "none"
NoData(f, d) == f = "none" \/ Len(d) = 0

\* raise Exception("No data")
RaiseNoData ==
    /\ pc = "fetched"
    /\ NoData(fetched, df)
    /\ Raise("Exception", "No data", 7)
    /\ UNCHANGED <<fetchVars, compVars, evalVars, cfgVars, notifyVars, rsiVars>>

\* the three indicator columns; calculate_ema indexes prices[0], which
\* raises IndexError on an empty array after calculate_rsi has returned
ComputeIndicators ==
    /\ pc = "fetched"
    /\ ~NoData(fetched, df)
    /\ computed' = TRUE
    /\ rsi' = calculate_rsi(df, RSI_PERIOD)
    /\ IF Len(df) = 0
         THEN /\ Raise("IndexError", "index out of bounds", 19)
              /\ UNCHANGED <<ema_fast, ema_slow>>
         ELSE /\ ema_fast' = calculate_ema(df, EMA_FAST)
              /\ ema_slow' = calculate_ema(df, EMA_SLOW)
              /\ pc' = "computed"
              /\ UNCHANGED errVars
    /\ UNCHANGED <<fetchVars, evalVars, cfgVars, notifyVars, rsiVars>>

\* any other exception raised by library code while the columns are
\* computed; the except clause of line 195 catches every Exception
ComputeFault ==
    /\ pc = "fetched"
    /\ ~NoData(fetched, df)
    /\ \E n \in FaultLens : Raise("ValueError", "fault", n)
    /\ UNCHANGED <<fetchVars, compVars, evalVars, cfgVars, notifyVars, rsiVars>>

Rows(d, r, f, s) ==
    [k \in 1..Len(d) |->
        [close |-> d[k], rsi |-> r[k], ema_fast |-> f[k], ema_slow |-> s[k]]]

\* df.dropna(subset=['rsi', 'ema_fast', 'ema_slow'])
DropNaMutKeepAll(rows) == rows
DropNa(rows) ==
    SelectSeq(rows, LAMBDA r :
        ~IsNaN[r.rsi] /\ ~IsNaN[r.ema_fast] /\ ~IsNaN[r.ema_slow])

\* raise Exception("No valid data")
RaiseNoValidData ==
    /\ pc = "computed"
    /\ Len(DropNa(Rows(df, rsi, ema_fast, ema_slow))) = 0
    /\ df_clean' = DropNa(Rows(df, rsi, ema_fast, ema_slow))
    /\ Raise("Exception", "No valid data", 13)
    /\ UNCHANGED <<prev_row, last_row, alerts, evaluated>>
    /\ UNCHANGED <<fetchVars, compVars, cfgVars, notifyVars, rsiVars>>

\* df_clean.iloc[-1]
LastRow(c) == c[Len(c)]

\* df_clean.iloc[-2] if len(df_clean) > 1 else last_row
PrevRow(c) == IF Len(c) > 1 THEN c[Len(c) - 1] ELSE LastRow(c)

\* the RSI rule (lines 169-172)
RsiAlertsMutBoth(last, ob, os) ==
    (IF FGe[last.rsi, Num[ob]] THEN <<"OverboughtRSI">> ELSE <<>>)
    \o (IF FLe[last.rsi, Num[os]] THEN <<"OversoldRSI">> ELSE <<>>)
RsiAlerts(last, ob, os) ==
    IF FGe[last.rsi, Num[ob]] THEN <<"OverboughtRSI">>
    ELSE IF FLe[last.rsi, Num[os]] THEN <<"OversoldRSI">>
    ELSE <<>>

\* the crossover rules (lines 174-177)
GoldenMutNonStrict(prev, last) ==
    FLe[prev.ema_fast, prev.ema_slow] /\ FGe[last.ema_fast, last.ema_slow]
Golden(prev, last) ==
    FLe[prev.ema_fast, prev.ema_slow] /\ FGt[last.ema_fast, last.ema_slow]

DeathMutStrictPrev(prev, last) ==
    FGt[prev.ema_fast, prev.ema_slow] /\ FLt[last.ema_fast, last.ema_slow]
Death(prev, last) ==
    FGe[prev.ema_fast, prev.ema_slow] /\ FLt[last.ema_fast, last.ema_slow]

CrossAlerts(prev, last) ==
    (IF Golden(prev, last) THEN <<"GoldenCross">> ELSE <<>>)
    \o (IF Death(prev, last) THEN <<"DeathCross">> ELSE <<>>)

\* lines 167-177: the alerts list
EvaluateAlerts(prev, last, ob, os) ==
    RsiAlerts(last, ob, os) \o CrossAlerts(prev, last)

\* lines 150-177 when some valid row exists
Evaluate ==
    /\ pc = "computed"
    /\ Len(DropNa(Rows(df, rsi, ema_fast, ema_slow))) # 0
    /\ LET c == DropNa(Rows(df, rsi, ema_fast, ema_slow))
       IN  /\ df_clean' = c
           /\ last_row' = LastRow(c)
           /\ prev_row' = PrevRow(c)
           /\ alerts' = EvaluateAlerts(PrevRow(c), LastRow(c), overbought, oversold)
    /\ evaluated' = TRUE
    /\ pc' = "evaluated"
    /\ UNCHANGED <<fetchVars, compVars, cfgVars, notifyVars, errVars, rsiVars>>

\* if alerts:
HasAlertsMutAlways(a) == TRUE
HasAlerts(a) == Len(a) > 0

AlertMsg(a) == [kind |-> "alert", label |-> "", text |-> "", len |-> 0, alerts |-> a]

StatusMsg == [kind |-> "status", label |-> "", text |-> "", len |-> 0, alerts |-> <<>>]

\* str(e)[:150]
TruncateMutNone(n) == n
Truncate(n) == Min(n, DiagCap)

\* the text of line 197: type(e).__name__ and the truncated str(e)
ErrorMsg(e) ==
    [kind |-> "error", label |-> e.name, text |-> e.text, len |-> Truncate(e.len),
     alerts |-> <<>>]

\* lines 179-191: the alert message is sent; the result is not looked at
NotifyAlerts ==
    /\ pc = "evaluated"
    /\ HasAlerts(alerts)
    /\ \E o \in PostOutcomes : Send(AlertMsg(alerts), o)
    /\ pc' = "done"
    /\ UNCHANGED <<fetchVars, compVars, evalVars, cfgVars, errVars, rsiVars>>

\* lines 192-193: no alerts, nothing sent
MarketNormal ==
    /\ pc = "evaluated"
    /\ ~HasAlerts(alerts)
    /\ reportMode = "silent"
    /\ pc' = "done"
    /\ UNCHANGED <<fetchVars, compVars, evalVars, cfgVars, notifyVars, errVars, rsiVars>>

\* the always-report revision: no alerts, a routine status message is sent
NotifyStatus ==
    /\ pc = "evaluated"
    /\ ~HasAlerts(alerts)
    /\ reportMode = "always"
    /\ \E o \in PostOutcomes : Send(StatusMsg, o)
    /\ pc' = "done"
    /\ UNCHANGED <<fetchVars, compVars, evalVars, cfgVars, errVars, rsiVars>>

\* lines 195-197: the except clause sends one message and the run ends
NotifyError ==
    /\ pc = "error"
    /\ \E o \in PostOutcomes : Send(ErrorMsg(exc), o)
    /\ pc' = "done"
    /\ UNCHANGED <<fetchVars, compVars, evalVars, cfgVars, errVars, rsiVars>>

\* ------------------------------------------------------------------------
\* One run of analyze_market
\* ------------------------------------------------------------------------
FetchIdle ==
    /\ attempt = 0 /\ attempts = 0 /\ failures = 0 /\ waits = 0
    /\ fetched = "pending" /\ df = <<>>

ComputeIdle ==
    /\ rsi = <<>> /\ ema_fast = <<>> /\ ema_slow = <<>>
    /\ computed = FALSE

NotifyIdle ==
    /\ exc = NoExc /\ errEntries = 0
    /\ sent = <<>> /\ results = <<>> /\ logged = 0

RsiIdle == prices = <<>> /\ period = RSI_PERIOD /\ rsiOut = <<>>

Init ==
    /\ pc = "fetch"
    /\ max_retries = DefaultMaxRetries
    /\ FetchIdle /\ ComputeIdle /\ NotifyIdle /\ RsiIdle
    /\ df_clean = <<>> /\ prev_row = NoRow /\ last_row = NoRow
    /\ alerts = <<>> /\ evaluated = FALSE
    /\ overbought = RSI_OVERBOUGHT /\ oversold = RSI_OVERSOLD
    /\ reportMode \in {"silent", "always"}

Next ==
    \/ FetchAttemptOk
    \/ FetchAttemptFail
    \/ FetchSleep
    \/ RaiseNoData
    \/ ComputeIndicators
    \/ ComputeFault
    \/ RaiseNoValidData
    \/ Evaluate
    \/ NotifyAlerts
    \/ MarketNormal
    \/ NotifyStatus
    \/ NotifyError

Spec == Init /\ [][Next]_vars

\* the run is one sequential thread; both network calls carry a timeout and
\* the sleep is finite, so an enabled step is eventually taken
FairSpec == Spec /\ WF_vars(Next)

\* ------------------------------------------------------------------------
\* A direct call of get_btc_data(max_retries)
\* ------------------------------------------------------------------------
InitFetch ==
    /\ pc = "fetch"
    /\ max_retries \in 0..MaxRetriesArg
    /\ FetchIdle /\ ComputeIdle /\ NotifyIdle /\ RsiIdle
    /\ df_clean = <<>> /\ prev_row = NoRow /\ last_row = NoRow
    /\ alerts = <<>> /\ evaluated = FALSE
    /\ overbought = RSI_OVERBOUGHT /\ oversold = RSI_OVERSOLD
    /\ reportMode = "silent"

NextFetch ==
    \/ FetchAttemptOk
    \/ FetchAttemptFail
    \/ FetchSleep
    \/ FetchLoopEnd

SpecFetch == InitFetch /\ [][NextFetch]_vars

FairSpecFetch == SpecFetch /\ WF_vars(NextFetch)

\* ------------------------------------------------------------------------
\* The alert rules applied to an arbitrary snapshot and threshold pair
\* ------------------------------------------------------------------------
RsiVals == {Num[20], Num[30], Num[35], Num[40], Num[45], Num[70], Num[75]}

EmaVals == {Num[v] : v \in 1..MaxEma}

ThresholdPairs == {<<45, 35>>, <<70, 30>>, <<30, 70>>, <<40, 40>>}

SnapshotRows ==
    {[close |-> Num[1], rsi |-> r, ema_fast |-> f, ema_slow |-> s] :
        r \in RsiVals, f \in EmaVals, s \in EmaVals}

InitEval ==
    /\ pc = "snapshot"
    /\ max_retries = DefaultMaxRetries
    /\ FetchIdle /\ ComputeIdle /\ NotifyIdle /\ RsiIdle
    /\ df_clean = <<>>
    /\ prev_row \in SnapshotRows /\ last_row \in SnapshotRows
    /\ alerts = <<>> /\ evaluated = FALSE
    /\ \E t \in ThresholdPairs : overbought = t[1] /\ oversold = t[2]
    /\ reportMode = "silent"

EvalSnapshot ==
    /\ pc = "snapshot"
    /\ alerts' = EvaluateAlerts(prev_row, last_row, overbought, oversold)
    /\ evaluated' = TRUE
    /\ pc' = "snapshot_done"
    /\ UNCHANGED <<df_clean, prev_row, last_row>>
    /\ UNCHANGED <<fetchVars, compVars, cfgVars, notifyVars, errVars, rsiVars>>

NextEval == EvalSnapshot

SpecEval == InitEval /\ [][NextEval]_vars

\* ------------------------------------------------------------------------
\* A direct call of calculate_rsi(prices, period)
\* ------------------------------------------------------------------------
InitRSI ==
    /\ pc = "rsi_call"
    /\ max_retries = DefaultMaxRetries
    /\ FetchIdle /\ ComputeIdle /\ NotifyIdle
    /\ df_clean = <<>> /\ prev_row = NoRow /\ last_row = NoRow
    /\ alerts = <<>> /\ evaluated = FALSE
    /\ overbought = RSI_OVERBOUGHT /\ oversold = RSI_OVERSOLD
    /\ reportMode = "silent"
    /\ prices \in SeriesOf(MaxPrices)
    /\ period \in 1..MaxPeriod
    /\ rsiOut = <<>>

CallRsi ==
    /\ pc = "rsi_call"
    /\ rsiOut' = calculate_rsi(prices, period)
    /\ pc' = "rsi_done"
    /\ UNCHANGED <<prices, period>>
    /\ UNCHANGED <<fetchVars, compVars, evalVars, cfgVars, notifyVars, errVars>>

NextRSI == CallRsi

SpecRSI == InitRSI /\ [][NextRSI]_vars

\* ------------------------------------------------------------------------
\* Properties
\* ------------------------------------------------------------------------
Has(a, tag) == \E i \in 1..Len(a) : a[i] = tag

Count(a, tags) == Cardinality({i \in 1..Len(a) : a[i] \in tags})

\* C1: the number of messages handed to the notifier is fixed by the outcome
\* of the run: never more than one; exactly one error message when the run
\* ended in the except clause, and then no alert message; exactly one alert
\* message when the run succeeded with alerts; with zero alerts exactly one
\* status message in always-report mode and no message in silent mode.
C1_MessageCount ==
    /\ Len(sent) <= 1
    /\ errEntries > 0 => \A i \in 1..Len(sent) : sent[i].kind = "error"
    /\ pc = "done" =>
         /\ errEntries > 0 => Len(sent) = 1 /\ sent[1].kind = "error"
         /\ errEntries = 0 /\ Len(alerts) > 0 =>
              Len(sent) = 1 /\ sent[1].kind = "alert" /\ sent[1].alerts = alerts
         /\ errEntries = 0 /\ Len(alerts) = 0 /\ reportMode = "always" =>
              Len(sent) = 1 /\ sent[1].kind = "status"
         /\ errEntries = 0 /\ Len(alerts) = 0 /\ reportMode = "silent" =>
              Len(sent) = 0

C1_Witness ==
    /\ pc = "done" /\ errEntries = 0 /\ evaluated
    /\ Len(alerts) = 0 /\ reportMode = "silent" /\ Len(sent) = 0

\* positions of df whose three indicator values are all defined
ValidPositions ==
    {k \in 1..Len(df) :
        ~IsNaN[rsi[k]] /\ ~IsNaN[ema_fast[k]] /\ ~IsNaN[ema_slow[k]]}

\* the run has gone past the dropna of line 150
PastDropNa ==
    /\ pc \in {"evaluated", "error", "done"}
    /\ computed
    /\ Len(ema_slow) = Len(df)

C3_RsiAlert ==
    pc = "snapshot_done" =>
        LET r == last_row.rsi[1]
        IN  /\ Count(alerts, {"OverboughtRSI", "OversoldRSI"}) <= 1
            /\ Has(alerts, "OverboughtRSI") <=> r >= overbought
            /\ Has(alerts, "OversoldRSI") <=> (r < overbought /\ r <= oversold)
            /\ ~(Has(alerts, "OverboughtRSI") /\ Has(alerts, "OversoldRSI"))

C3_Witness ==
    /\ pc = "snapshot_done"
    /\ overbought <= oversold
    /\ last_row.rsi[1] >= overbought /\ last_row.rsi[1] <= oversold
    /\ prev_row.rsi[1] < overbought
    /\ Has(alerts, "OverboughtRSI")

\* C4: GoldenCross is emitted exactly when prev.ema_fast <= prev.ema_slow and
\* last.ema_fast > last.ema_slow, DeathCross exactly when
\* prev.ema_fast >= prev.ema_slow and last.ema_fast < last.ema_slow, and the
\* two are never emitted together.
C4_Cross ==
    pc = "snapshot_done" =>
        LET pf == prev_row.ema_fast[1]
            ps == prev_row.ema_slow[1]
            lf == last_row.ema_fast[1]
            ls == last_row.ema_slow[1]
        IN  /\ Has(alerts, "GoldenCross") <=> (pf <= ps /\ lf > ls)
            /\ Has(alerts, "DeathCross") <=> (pf >= ps /\ lf < ls)
            /\ ~(Has(alerts, "GoldenCross") /\ Has(alerts, "DeathCross"))

C4_Witness ==
    /\ pc = "snapshot_done"
    /\ prev_row.ema_fast[1] > prev_row.ema_slow[1]
    /\ last_row.ema_fast[1] < last_row.ema_slow[1]
    /\ Has(alerts, "DeathCross")

\* C5: a tie at last (ema_fast = ema_slow) emits neither cross whatever prev
\* is, in particular on a plateau; a tie at prev followed by a strict
\* inequality at last emits the corresponding cross.
C5_Tie ==
    pc = "snapshot_done" =>
        LET pf == prev_row.ema_fast[1]
            ps == prev_row.ema_slow[1]
            lf == last_row.ema_fast[1]
            ls == last_row.ema_slow[1]
        IN  /\ lf = ls => Count(alerts, {"GoldenCross", "DeathCross"}) = 0
            /\ pf = ps /\ lf > ls => Has(alerts, "GoldenCross")
            /\ pf = ps /\ lf < ls => Has(alerts, "DeathCross")

C5_Witness ==
    /\ pc = "snapshot_done"
    /\ prev_row.ema_fast[1] < prev_row.ema_slow[1]
    /\ last_row.ema_fast[1] = last_row.ema_slow[1]
    /\ Count(alerts, {"GoldenCross", "DeathCross"}) = 0

StrictlyIncreasing(p) ==
    \A k \in 1..Len(p) : ~IsNaN[p[k]] /\ (k > 1 => FLt[p[k - 1], p[k]])

\* C6 as claimed: for a strictly increasing close sequence longer than the
\* period every RSI value lies in [0, 100] and the values at positions
\* >= period are high (toward 100), not low.
C6_Claim ==
    pc = "rsi_done" /\ StrictlyIncreasing(prices) /\ Len(prices) > period =>
        /\ \A k \in 1..Len(rsiOut) :
             FGe[rsiOut[k], Num[0]] /\ FLe[rsiOut[k], Num[100]]
        /\ \A k \in (period + 1)..Len(rsiOut) : FGe[rsiOut[k], Num[50]]

\* the integer value of the k-th first difference, 0 when it is NaN
DeltaInt(p, k) ==
    IF IsNaN[p[k]] \/ IsNaN[p[k + 1]] THEN 0 ELSE p[k + 1][1] - p[k][1]

RECURSIVE GainUpTo(_, _)
GainUpTo(p, k) ==
    IF k = 0 THEN 0
    ELSE GainUpTo(p, k - 1) + (IF DeltaInt(p, k) > 0 THEN DeltaInt(p, k) ELSE 0)

RECURSIVE LossUpTo(_, _)
LossUpTo(p, k) ==
    IF k = 0 THEN 0
    ELSE LossUpTo(p, k - 1) + (IF DeltaInt(p, k) < 0 THEN -DeltaInt(p, k) ELSE 0)

\* the seeded value in closed form: 100*G/(G+L) over the deltas that exist
\* among the first period+1, and 0 when there is no loss among them
SeedValue(p, per) ==
    LET w == IF Len(p) = 0 THEN 0 ELSE Min(per + 1, Len(p) - 1)
        g == GainUpTo(p, w)
        l == LossUpTo(p, w)
    IN  IF l = 0 THEN Num[0] ELSE Norm[<<100 * g, g + l>>]

\* C7: calculate_rsi returns exactly N values for N closes and any period
\* >= 1, and positions 0..min(period, N)-1 all hold the one seeded value
\* computed from the first period+1 deltas, also when N <= period, where the
\* seed window is cut to the deltas that exist and the loop does not run.
C7_Seed ==
    pc = "rsi_done" =>
        /\ Len(rsiOut) = Len(prices)
        /\ \A k \in 1..Min(period, Len(prices)) :
             rsiOut[k] = SeedValue(prices, period)

C7_Witness ==
    /\ pc = "rsi_done"
    /\ Len(prices) = period /\ period > 1
    /\ Len(rsiOut) = period
    /\ FGt[rsiOut[1], Num[0]]
    /\ rsiOut[period] = rsiOut[1]

CountFalse(r) == Cardinality({i \in 1..Len(r) : ~r[i]})

C8_Safety ==
    /\ errEntries <= 1
    /\ Len(sent) <= 1
    /\ Len(results) = Len(sent)
    /\ logged = CountFalse(results)
    /\ pc = "done" /\ errEntries = 1 =>
         /\ Len(sent) = 1
         /\ sent[1].kind = "error"
         /\ sent[1].label = exc.name
         /\ sent[1].len = (IF exc.len <= DiagCap THEN exc.len ELSE DiagCap)
         /\ sent[1].len <= DiagCap
    /\ Len(sent) = 1 /\ sent[1].kind # "error" => errEntries = 0
    /\ Len(sent) = 1 => pc = "done"

\* C8: every run terminates; the except clause is entered at most once and
\* makes exactly one notification attempt carrying the exception's type name
\* and its message cut to at most 150 characters; a failed send (non-200
\* status or exception), of that message or of the alert message, is
\* returned as False and logged, is not retried, and ends the run without
\* entering the except clause.
C8_Terminates ==
    /\ []C8_Safety
    /\ [][pc = "done" => pc' = "done"]_vars
    /\ <>(pc = "done")

C8_Witness ==
    /\ pc = "done" /\ errEntries = 1
    /\ exc.len > DiagCap
    /\ sent[1].len = DiagCap
    /\ results = <<FALSE>> /\ logged = 1

NoDataMsg ==
    [kind |-> "error", label |-> "Exception", text |-> "No data", len |-> 7,
     alerts |-> <<>>]

\* C9: a fetch that returned no series after its retries and a fetch that
\* returned a series with zero rows both raise the one "No data" exception
\* before any indicator is computed or any alert evaluated, and both end
\* with the same single error message, whatever the number of attempts.
C9_NoData ==
    (pc \in {"error", "done"} /\ (fetched = "none" \/ (fetched = "series" /\ Len(df) = 0))) =>
        /\ exc = [name |-> "Exception", text |-> "No data", len |-> 7]
        /\ errEntries = 1
        /\ ~computed /\ ~evaluated
        /\ pc = "done" => sent = <<NoDataMsg>>

C9_Witness ==
    /\ pc = "done"
    /\ fetched = "series" /\ Len(df) = 0
    /\ attempts = 2
    /\ sent = <<NoDataMsg>>

C10_Safety ==
    /\ attempts <= max_retries
    /\ waits <= failures
    /\ max_retries > 0 => waits <= max_retries - 1
    /\ max_retries = 0 => waits = 0
    /\ pc = "fetched" =>
         /\ fetched \in {"none", "series"}
         /\ fetched = "none" <=> failures = max_retries
         /\ fetched = "none" => attempts = max_retries
         /\ fetched = "series" =>
              attempts = failures + 1 /\ waits = failures
         /\ fetched = "none" /\ max_retries > 0 => waits = failures - 1

\* C10: get_btc_data(max_retries) makes at most max_retries attempts and
\* always returns; it returns the series at the first successful attempt and
\* makes no further attempt; it returns None exactly when all max_retries
\* attempts failed or max_retries is 0; it sleeps only after a failed
\* attempt that is not the last, so at most max_retries - 1 times.
C10_Fetch ==
    /\ []C10_Safety
    /\ [][pc = "fetched" => attempts' = attempts /\ waits' = waits]_vars
    /\ <>(pc = "fetched")

C10_Witness ==
    /\ pc = "fetched" /\ fetched = "none"
    /\ max_retries = MaxRetriesArg
    /\ failures = max_retries /\ waits = max_retries - 1

====
